---- MODULE Spec2Model ----
(***************************************************************************)
(* Model of src/interactions.h: the material-interaction stage of the path *)
(* tracer (calculateRandomDirectionInHemisphere, dielectric, scatterRay).  *)
(*                                                                         *)
(* A float is modelled as a fixed-point number: the integer v stands for   *)
(* v / Scale.  Like an IEEE float it has a finite range and three special  *)
(* values: finite values lie in -MaxFinite..MaxFinite, PosInf and NegInf   *)
(* lie just outside that range (so they order correctly against finite     *)
(* values) and NaN is a separate code that every comparison rejects.       *)
(* Every arithmetic operator rounds toward zero to the grid 1/Scale.       *)
(***************************************************************************)
EXTENDS Integers, Sequences, FiniteSets

Scale == 10000

MaxUnits == 20

MaxDepth == 2

MaxFinite == MaxUnits * Scale
PosInf == MaxFinite + 1
NegInf == -(MaxFinite + 1)
NaN == MaxFinite + 2

One == Scale

\* the decimal literal n/d as a float
F(n, d) == (n * Scale) \div d

IsNaN(a) == a = NaN
IsInf(a) == a = PosInf \/ a = NegInf
IsFinite(a) == ~IsNaN(a) /\ ~IsInf(a)

Mag(a) == IF a < 0 THEN -a ELSE a
Sgn(a) == IF a < 0 THEN -1 ELSE IF a > 0 THEN 1 ELSE 0

\* the result of an operation, overflowing to an infinity
Sat(n) == IF n > MaxFinite THEN PosInf ELSE IF n < -MaxFinite THEN NegInf ELSE n

\* unary minus
FNeg(a) == IF IsNaN(a) THEN NaN ELSE -a

\* abs
FAbs(a) == IF IsNaN(a) THEN NaN ELSE Mag(a)

\* a + b
FAdd(a, b) ==
    IF IsNaN(a) \/ IsNaN(b) THEN NaN
    ELSE IF IsInf(a) THEN (IF IsInf(b) /\ b # a THEN NaN ELSE a)
    ELSE IF IsInf(b) THEN b
    ELSE Sat(a + b)

\* a - b
FSub(a, b) == FAdd(a, FNeg(b))

\* a * b; the product of the two magnitudes is formed from their integer and
\* fractional parts so that no intermediate value leaves the integer range
FMul(a, b) ==
    IF IsNaN(a) \/ IsNaN(b) THEN NaN
    ELSE IF IsInf(a) \/ IsInf(b)
         THEN (IF a = 0 \/ b = 0 THEN NaN
               ELSE IF Sgn(a) * Sgn(b) > 0 THEN PosInf ELSE NegInf)
    ELSE LET ah == Mag(a) \div Scale
             al == Mag(a) % Scale
             bh == Mag(b) \div Scale
             bl == Mag(b) % Scale
         IN  IF ah * bh > MaxUnits
             THEN (IF Sgn(a) * Sgn(b) > 0 THEN PosInf ELSE NegInf)
             ELSE Sat(Sgn(a) * Sgn(b) *
                      (ah * bh * Scale + ah * bl + al * bh + (al * bl) \div Scale))

\* a / b
FDiv(a, b) ==
    IF IsNaN(a) \/ IsNaN(b) THEN NaN
    ELSE IF b = 0
         THEN (IF a = 0 THEN NaN ELSE IF a > 0 THEN PosInf ELSE NegInf)
    ELSE IF IsInf(a)
         THEN (IF IsInf(b) THEN NaN
               ELSE IF Sgn(a) * Sgn(b) > 0 THEN PosInf ELSE NegInf)
    ELSE IF IsInf(b) THEN 0
    ELSE Sat(Sgn(a) * Sgn(b) * ((Mag(a) * Scale) \div Mag(b)))

\* a < b, false when either side is NaN
FLess(a, b) == ~IsNaN(a) /\ ~IsNaN(b) /\ a < b

\* a >= b, false when either side is NaN
FGeq(a, b) == ~IsNaN(a) /\ ~IsNaN(b) /\ a >= b

\* max(a, b) as (a < b) ? b : a
FMax(a, b) == IF FLess(a, b) THEN b ELSE a

\* min(a, b) as (b < a) ? b : a
FMin(a, b) == IF FLess(b, a) THEN b ELSE a

\* glm::clamp(x, lo, hi) = min(max(x, lo), hi)
Clamp(x, lo, hi) == FMin(FMax(x, lo), hi)

\* floor of the square root of a natural number
RECURSIVE ISqrt(_)
ISqrt(n) ==
    IF n < 2 THEN n
    ELSE LET r == 2 * ISqrt(n \div 4)
         IN  IF (r + 1) * (r + 1) <= n THEN r + 1 ELSE r

\* sqrt
FSqrt(a) ==
    IF IsNaN(a) \/ a < 0 THEN NaN
    ELSE IF a = PosInf THEN PosInf
    ELSE ISqrt(a * Scale)


(***************************************************************************)
(* glm::vec3 and the vector functions the source calls.                    *)
(***************************************************************************)
Vec(a, b, c) == [x |-> a, y |-> b, z |-> c]

\* glm::vec3 built from decimal literals with a common denominator
VecF(a, b, c, d) == Vec(F(a, d), F(b, d), F(c, d))

\* -v
VNeg(v) == Vec(FNeg(v.x), FNeg(v.y), FNeg(v.z))

\* u + v
VAdd(u, v) == Vec(FAdd(u.x, v.x), FAdd(u.y, v.y), FAdd(u.z, v.z))

\* u - v
VSub(u, v) == Vec(FSub(u.x, v.x), FSub(u.y, v.y), FSub(u.z, v.z))

\* float * vec3
VScale(s, v) == Vec(FMul(s, v.x), FMul(s, v.y), FMul(s, v.z))

\* vec3 * vec3, componentwise
VMul(u, v) == Vec(FMul(u.x, v.x), FMul(u.y, v.y), FMul(u.z, v.z))

\* glm::dot
Dot(u, v) == FAdd(FAdd(FMul(u.x, v.x), FMul(u.y, v.y)), FMul(u.z, v.z))

\* glm::cross
Cross(u, v) ==
    Vec(FSub(FMul(u.y, v.z), FMul(v.y, u.z)),
        FSub(FMul(u.z, v.x), FMul(v.z, u.x)),
        FSub(FMul(u.x, v.y), FMul(v.x, u.y)))

\* glm::normalize(v) = v * inversesqrt(dot(v, v)); the zero vector gives
\* 0 * inf = NaN in every component
Normalize(v) ==
    LET inv == FDiv(One, FSqrt(Dot(v, v)))
    IN  VScale(inv, v)

\* glm::reflect(I, N) = I - N * dot(N, I) * 2
Reflect(I, N) == VSub(I, VScale(FMul(Dot(N, I), 2 * One), N))

\* the result of glm::refract once d = dot(N, I) and
\* k = 1 - eta * eta * (1 - d * d) are known
RefractResult(I, N, eta, d, k) ==
    IF FGeq(k, 0)
    THEN VSub(VScale(eta, I), VScale(FAdd(FMul(eta, d), FSqrt(k)), N))
    ELSE Vec(0, 0, 0)

\* glm::refract once d = dot(N, I) is known
RefractWithDot(I, N, eta, d) ==
    RefractResult(I, N, eta, d,
                  FSub(One, FMul(FMul(eta, eta), FSub(One, FMul(d, d)))))

\* glm::refract(I, N, eta): with d = dot(N, I) and
\* k = 1 - eta * eta * (1 - d * d), the result is
\* eta * I - (eta * d + sqrt(k)) * N when k >= 0 and the zero vector otherwise
Refract(I, N, eta) == RefractWithDot(I, N, eta, Dot(N, I))

(***************************************************************************)
(* cos and sin of an angle in [0, 2*pi], by reduction to [0, pi/2] and the *)
(* Taylor polynomial of degree 8.                                          *)
(***************************************************************************)
PI == F(31416, 10000)
TWO_PI == F(62832, 10000)

\* |a| < SQRT_OF_ONE_THIRD, decided as 3 * a * a < 1
BelowSqrtOfOneThird(a) == FLess(FMul(F(3, 1), FMul(a, a)), One)

\* 1 - x^2/2 + x^4/24 - x^6/720 + x^8/40320, given x^2 and x^4
CosSeries(x2, x4) ==
    One - x2 \div 2 + x4 \div 24 - FMul(x4, x2) \div 720 + FMul(x4, x4) \div 40320

CosSquared(x2) == CosSeries(x2, FMul(x2, x2))

\* cos on [0, pi/2]
CosPoly(x) == CosSquared(FMul(x, x))

\* cos on [0, pi]
CosHalfTurn(h) == IF 2 * h > PI THEN -CosPoly(PI - h) ELSE CosPoly(h)

\* cos on [0, 2*pi]
CosTurn(t) == CosHalfTurn(IF t > PI THEN TWO_PI - t ELSE t)

Cos(a) == IF ~IsFinite(a) THEN NaN ELSE CosTurn(Mag(a) % (TWO_PI + 1))

Sin(a) == IF ~IsFinite(a) THEN NaN ELSE Cos(a - PI \div 2)

(***************************************************************************)
(* thrust::default_random_engine with uniform_real_distribution(0, 1): the *)
(* engine's state is the sequence of draws it has yet to produce; a draw   *)
(* returns the head and leaves the tail.                                   *)
(***************************************************************************)
u01(r) == [value |-> Head(r), rng |-> Tail(r)]

\* the axis that is not the normal
directionNotNormal(normal) ==
    IF BelowSqrtOfOneThird(FAbs(normal.x)) THEN Vec(One, 0, 0)
    ELSE IF BelowSqrtOfOneThird(FAbs(normal.y)) THEN Vec(0, One, 0)
    ELSE Vec(0, 0, One)

\* the returned direction, given up, over, around and perpendicularDirection1
hemisphereDirection(normal, up, over, around, perpendicularDirection1) ==
    VAdd(VAdd(VScale(up, normal),
              VScale(FMul(Cos(around), over), perpendicularDirection1)),
         VScale(FMul(Sin(around), over),
                Normalize(Cross(normal, perpendicularDirection1))))

\* the sample once up is known; d2 is the second draw
hemisphereWithUp(normal, up, d2) ==
    [value |-> hemisphereDirection(normal, up, FSqrt(FSub(One, FMul(up, up))),
                                   FMul(d2.value, TWO_PI),
                                   Normalize(Cross(normal, directionNotNormal(normal)))),
     rng |-> d2.rng]

\* the sample once the first draw d1 is made
hemisphereAfterDraw(normal, d1) == hemisphereWithUp(normal, FSqrt(d1.value), u01(d1.rng))

\* calculateRandomDirectionInHemisphere: .value is the direction returned,
\* .rng the engine after the call
calculateRandomDirectionInHemisphere(normal, r) == hemisphereAfterDraw(normal, u01(r))

\* the Fresnel term (a - b) / (a + b)
FresnelTerm(a, b) == FDiv(FSub(a, b), FAdd(a, b))

\* (Rparl * Rparl + Rperp * Rperp) / 2
FresnelAverage(Rparl, Rperp) ==
    FDiv(FAdd(FMul(Rparl, Rparl), FMul(Rperp, Rperp)), 2 * One)

\* dielectric below the test for total internal reflection
dielectricTerms(cosThetaI, etaI, etaT, cosThetaT) ==
    FresnelAverage(FresnelTerm(FMul(etaT, cosThetaI), FMul(etaI, cosThetaT)),
                   FresnelTerm(FMul(etaI, cosThetaI), FMul(etaT, cosThetaT)))

\* dielectric once sinThetaT is known
dielectricSnell(cosThetaI, etaI, etaT, sinThetaT) ==
    IF FGeq(sinThetaT, One) THEN One
    ELSE dielectricTerms(cosThetaI, etaI, etaT,
                         FSqrt(FMax(0, FSub(One, FMul(sinThetaT, sinThetaT)))))

\* dielectric after the clamp of cosThetaI
dielectricClamped(cosThetaI, etaI, etaT) ==
    dielectricSnell(cosThetaI, etaI, etaT,
                    FMul(FDiv(etaI, etaT),
                         FSqrt(FMax(0, FSub(One, FMul(cosThetaI, cosThetaI))))))

\* dielectric(cosThetaI, etaI, etaT)
dielectric(cosThetaI, etaI, etaT) ==
    dielectricClamped(Clamp(cosThetaI, -One, One), etaI, etaT)

(***************************************************************************)
(* scatterRay.  A PathSegment is [ray |-> [origin, direction], color,      *)
(* dead]; color is the path's throughput and dead its terminated flag.     *)
(* A Material is [color, specular |-> [color], hasReflective,              *)
(* hasRefractive, indexOfRefraction, emittance].                           *)
(***************************************************************************)

\* the self-intersection bias 0.0001f
EPSILON == F(1, 10000)

\* branchOf with the reflective flag tested before the refractive one
branchOf_m(m) ==
    IF FLess(0, m.emittance) THEN "emissive"
    ELSE IF m.hasReflective THEN "reflective"
    ELSE IF m.hasRefractive THEN "refractive"
    ELSE "diffuse"

\* which of the four branches scatterRay takes for material m
branchOf(m) ==
    IF FLess(0, m.emittance) THEN "emissive"
    ELSE IF m.hasRefractive THEN "refractive"
    ELSE IF m.hasReflective THEN "reflective"
    ELSE "diffuse"

\* emissiveBranch that also folds the emitted light into the throughput
emissiveBranch_m(seg, m) ==
    [seg EXCEPT !.dead = TRUE, !.color = VMul(@, VScale(m.emittance, m.color))]

\* the emissive branch: only the flag is written
emissiveBranch(seg, m) == [seg EXCEPT !.dead = TRUE]

\* the test that selects the reflection fallback of the refractive branch
reflectFallback(f) == FLess(One, f)

\* max(1.0f, f / abs(cosThetaI))
reflectWeight(f, cosThetaI) == FMax(One, FDiv(f, FAbs(cosThetaI)))

\* max(1.0f, (1.0f - f) / abs(cosThetaI))
transmitWeight(f, cosThetaI) == FMax(One, FDiv(FSub(One, f), FAbs(cosThetaI)))

\* the refractive branch once wi and f are assigned
refractiveWeigh(color, wo, normal, m, cosThetaI, wi, f) ==
    IF reflectFallback(f)
    THEN [wi |-> Reflect(wo, normal),
          color |-> VMul(color, VScale(reflectWeight(f, cosThetaI), m.specular.color)),
          cosThetaI |-> cosThetaI, f |-> f]
    ELSE [wi |-> wi,
          color |-> VMul(color, VScale(transmitWeight(f, cosThetaI), m.specular.color)),
          cosThetaI |-> cosThetaI, f |-> f]

\* the refractive branch once cosThetaI is known
refractiveSide(color, wo, normal, m, cosThetaI) ==
    IF FLess(cosThetaI, 0)
    THEN refractiveWeigh(color, wo, normal, m, cosThetaI,
                         Refract(wo, normal, FDiv(One, m.indexOfRefraction)),
                         dielectric(FNeg(cosThetaI), One, m.indexOfRefraction))
    ELSE refractiveWeigh(color, wo, normal, m, cosThetaI,
                         Refract(wo, VNeg(normal), m.indexOfRefraction),
                         dielectric(cosThetaI, m.indexOfRefraction, One))

\* the refractive branch: the direction wi, the new color, and the values of
\* cosThetaI and f it computed
refractiveBranch(color, wo, normal, m) ==
    refractiveSide(color, wo, normal, m, Dot(normal, wo))

\* reflectiveBranch with the arguments of reflect exchanged
reflectiveBranch_m(color, wo, normal, m) ==
    [wi |-> Reflect(normal, wo), color |-> VMul(color, m.specular.color)]

\* the mirror branch
reflectiveBranch(color, wo, normal, m) ==
    [wi |-> Reflect(wo, normal), color |-> VMul(color, m.specular.color)]

\* the result of a diffuse branch that applies the diffuse color
diffuseTinted(color, m, s) == [wi |-> s.value, color |-> VMul(color, m.color), rng |-> s.rng]

\* diffuseBranch that applies the diffuse color to the throughput
diffuseBranch_m(color, normal, m, r) ==
    diffuseTinted(color, m, calculateRandomDirectionInHemisphere(normal, r))

\* the diffuse branch, given the sample s
diffuseSampled(color, m, s) == [wi |-> s.value, color |-> color, rng |-> s.rng]

\* the diffuse branch
diffuseBranch(color, normal, m, r) ==
    diffuseSampled(color, m, calculateRandomDirectionInHemisphere(normal, r))

\* the two assignments that end every branch but the emissive one
finalize(seg, intersect, wi, color) ==
    [seg EXCEPT !.ray = [origin |-> VAdd(intersect, VScale(EPSILON, wi)),
                         direction |-> Normalize(wi)],
                !.color = color]

\* what a call leaves behind: .seg is the path segment and .rng the engine
\* after the call; .cosThetaI and .f are the locals of the refractive branch
\* (NaN in the other branches)
afterRefractive(seg, intersect, r, o) ==
    [seg |-> finalize(seg, intersect, o.wi, o.color), rng |-> r,
     cosThetaI |-> o.cosThetaI, f |-> o.f]

afterReflective(seg, intersect, r, o) ==
    [seg |-> finalize(seg, intersect, o.wi, o.color), rng |-> r,
     cosThetaI |-> NaN, f |-> NaN]

afterDiffuse(seg, intersect, o) ==
    [seg |-> finalize(seg, intersect, o.wi, o.color), rng |-> o.rng,
     cosThetaI |-> NaN, f |-> NaN]

\* scatterRay once wo is computed and the branch b is decided
scatterBranch(seg, intersect, normal, m, r, wo, b) ==
    IF b = "emissive"
    THEN [seg |-> emissiveBranch(seg, m), rng |-> r, cosThetaI |-> NaN, f |-> NaN]
    ELSE IF b = "refractive"
    THEN afterRefractive(seg, intersect, r, refractiveBranch(seg.color, wo, normal, m))
    ELSE IF b = "reflective"
    THEN afterReflective(seg, intersect, r, reflectiveBranch(seg.color, wo, normal, m))
    ELSE afterDiffuse(seg, intersect, diffuseBranch(seg.color, normal, m, r))

\* scatterRay(pathSegment, intersect, normal, m, rng, depth)
scatterRay(seg, intersect, normal, m, r, d) ==
    scatterBranch(seg, intersect, normal, m, r, Normalize(seg.ray.direction), branchOf(m))

(***************************************************************************)
(* The inputs.                                                             *)
(***************************************************************************)
Material(c, sc, refl, refr, ior, e) ==
    [color |-> c, specular |-> [color |-> sc], hasReflective |-> refl,
     hasRefractive |-> refr, indexOfRefraction |-> ior, emittance |-> e]

White == VecF(1, 1, 1, 1)
Grey == VecF(8, 8, 8, 10)
Amber == VecF(10, 5, 0, 10)

Materials ==
    { Material(White, Vec(0, 0, 0), FALSE, FALSE, One, F(5, 1)),    \* light
      Material(White, Grey, TRUE, TRUE, F(15, 10), F(1, 1)),        \* light, both flags
      Material(Amber, Vec(0, 0, 0), FALSE, FALSE, One, 0),          \* diffuse
      Material(Amber, Amber, TRUE, FALSE, One, 0),                  \* tinted mirror
      Material(White, White, FALSE, TRUE, F(15, 10), 0),            \* glass
      Material(Amber, Grey, TRUE, TRUE, F(15, 10), 0),              \* glass, both flags
      Material(White, Amber, FALSE, TRUE, F(125, 100), 0),          \* ior 1.25
      Material(White, White, FALSE, TRUE, One, 0) }                 \* ior 1

\* unit normals: one for each choice of directionNotNormal
Normals == { VecF(0, 1, 0, 1), VecF(1, 0, 0, 1), VecF(6, 8, 0, 10) }

\* hit points
Points == { VecF(1, 2, 3, 1) }

\* engine states: the draws to come, each in [0, 1)
Streams ==
    { <<F(64, 100), F(1, 4), F(1, 2)>>,
      <<0, F(7, 8), F(1, 4)>> }

\* the rays the camera can start a path with
StartDirections ==
    { VecF(8, -6, 0, 10), VecF(8, 6, 0, 10), VecF(0, -1, 0, 1), VecF(1, 0, 0, 1),
      VecF(9992, -400, 0, 10000) }

StartSegments ==
    { [ray |-> [origin |-> Vec(0, 0, 0), direction |-> d], color |-> White, dead |-> FALSE] :
        d \in StartDirections }

(***************************************************************************)
(* The state machine: one path segment driven bounce by bounce.            *)
(***************************************************************************)
VARIABLES pathSegment, rng, depth, last, fresnel

vars == <<pathSegment, rng, depth, last, fresnel>>

\* HarnessActive without the test of the dead flag
HarnessActive_m(seg, d) == d < MaxDepth

\* the shading pass hands a path to scatterRay only while it is not dead and
\* has bounces left
HarnessActive(seg, d) == ~seg.dead /\ d < MaxDepth

\* last records the most recent call: its arguments, the path segment it was
\* given, and the locals cosThetaI and f of the refractive branch
NoCall == [called |-> FALSE]
FresnelIdle == [done |-> FALSE, cosThetaI |-> 0, etaI |-> One, etaT |-> One, f |-> NaN]

Init ==
    /\ pathSegment \in StartSegments
    /\ rng = << >>
    /\ depth = 0
    /\ last = NoCall
    /\ fresnel = FresnelIdle

\* the state after a call of scatterRay that returned out
Returned(out, intersect, normal, m, r) ==
    /\ pathSegment' = out.seg
    /\ rng' = out.rng
    /\ last' = [called |-> TRUE, seg |-> pathSegment,
                intersect |-> intersect, normal |-> normal, m |-> m,
                rng |-> r, cosThetaI |-> out.cosThetaI, f |-> out.f]

\* one bounce: the harness seeds an engine and calls scatterRay
Scatter ==
    /\ HarnessActive(pathSegment, depth)
    /\ \E m \in Materials, normal \in Normals, intersect \in Points, r \in Streams :
          Returned(scatterRay(pathSegment, intersect, normal, m, r, depth),
                   intersect, normal, m, r)
    /\ depth' = depth + 1
    /\ UNCHANGED fresnel

Next == Scatter

Spec == Init /\ [][Next]_vars

(***************************************************************************)
(* dielectric on its own: the arguments are drawn from bounded sets and    *)
(* one action applies the function.                                        *)
(***************************************************************************)
Cosines == { -One, -F(8, 10), -F(1, 2), -F(1, 10), 0, F(3, 10), F(6, 10), F(8, 10), One }

Etas == { One, F(15, 10), F(2, 1) }

InitFresnel ==
    /\ pathSegment \in { s \in StartSegments : s.ray.direction = VecF(0, -1, 0, 1) }
    /\ rng = << >>
    /\ depth = 0
    /\ last = NoCall
    /\ \E c \in Cosines, ei \in Etas, et \in Etas :
          fresnel = [done |-> FALSE, cosThetaI |-> c, etaI |-> ei, etaT |-> et, f |-> NaN]

Evaluate ==
    /\ ~fresnel.done
    /\ fresnel' = [fresnel EXCEPT !.done = TRUE,
                                  !.f = dielectric(fresnel.cosThetaI, fresnel.etaI, fresnel.etaT)]
    /\ UNCHANGED <<pathSegment, rng, depth, last>>

NextFresnel == Evaluate

SpecFresnel == InitFresnel /\ [][NextFresnel]_vars


(***************************************************************************)
(* Properties.                                                             *)
(***************************************************************************)
Tolerance == F(1, 100)

VFinite(v) == IsFinite(v.x) /\ IsFinite(v.y) /\ IsFinite(v.z)

Near(a, b) == IsFinite(a) /\ IsFinite(b) /\ Mag(a - b) <= Tolerance

VNear(u, v) == Near(u.x, v.x) /\ Near(u.y, v.y) /\ Near(u.z, v.z)

IsUnit(v) == VFinite(v) /\ Near(Dot(v, v), One)

NonNegative(a) == ~IsNaN(a) /\ a >= 0

\* the material classes of the last call, read off the material's fields
LastEmissive == last.called /\ last.m.emittance > 0
LastRefractive == last.called /\ last.m.emittance <= 0 /\ last.m.hasRefractive
LastMirror ==
    last.called /\ last.m.emittance <= 0 /\ ~last.m.hasRefractive /\ last.m.hasReflective
LastDiffuse ==
    last.called /\ last.m.emittance <= 0 /\ ~last.m.hasRefractive /\ ~last.m.hasReflective

\* the normalized incoming direction of the last call
LastWo == Normalize(last.seg.ray.direction)

\* sinThetaT of the last refractive call, by Snell's law
LastSinThetaT ==
    LET c == last.cosThetaI
        ratio == IF c < 0 THEN FDiv(One, last.m.indexOfRefraction)
                 ELSE last.m.indexOfRefraction
    IN  FMul(ratio, FSqrt(FMax(0, FSub(One, FMul(c, c)))))

\* the direction refract gives the last refractive call
LastRefracted ==
    IF last.cosThetaI < 0
    THEN Refract(LastWo, last.normal, FDiv(One, last.m.indexOfRefraction))
    ELSE Refract(LastWo, VNeg(last.normal), last.m.indexOfRefraction)

\* the last call was refractive, on a finite incoming direction, and total
\* internal reflection occurred
LastTotalInternalReflection ==
    /\ LastRefractive
    /\ VFinite(LastWo)
    /\ (LastSinThetaT >= One \/ LastRefracted = Vec(0, 0, 0))

\* C1: when total internal reflection occurs in the refractive branch, the
\* outgoing direction is reflect(wo, normal) and the throughput is multiplied
\* by specularColor * max(1, f / |cosThetaI|)
C1_TirReflects ==
    LastTotalInternalReflection =>
        /\ pathSegment.ray.direction = Normalize(Reflect(LastWo, last.normal))
        /\ pathSegment.color =
              VMul(last.seg.color,
                   VScale(FMax(One, FDiv(last.f, FAbs(last.cosThetaI))),
                          last.m.specular.color))

\* C2: after a call that takes the refractive, mirror or diffuse branch the
\* ray direction has unit length
C2_UnitDirection ==
    (LastRefractive \/ LastMirror \/ LastDiffuse) => IsUnit(pathSegment.ray.direction)

\* C3: for a material with emittance > 0, whatever its flags, the call sets
\* dead and leaves ray origin, ray direction and throughput as they were
C3_EmissiveTerminatesOnly ==
    LastEmissive =>
        /\ pathSegment.dead
        /\ pathSegment.ray = last.seg.ray
        /\ pathSegment.color = last.seg.color

C3_Witness ==
    /\ LastEmissive
    /\ last.m.hasRefractive
    /\ last.m.hasReflective
    /\ depth = 2
    /\ pathSegment.ray.origin # Vec(0, 0, 0)

C5_BranchPriority ==
    last.called =>
        LET m == last.m
            seg == last.seg
        IN  IF m.emittance > 0
            THEN /\ pathSegment = [seg EXCEPT !.dead = TRUE]
                 /\ rng = last.rng
            ELSE IF m.hasRefractive
            THEN LET o == refractiveBranch(seg.color, LastWo, last.normal, m)
                 IN  /\ pathSegment = finalize(seg, last.intersect, o.wi, o.color)
                     /\ rng = last.rng
            ELSE IF m.hasReflective
            THEN LET o == reflectiveBranch(seg.color, LastWo, last.normal, m)
                 IN  /\ pathSegment = finalize(seg, last.intersect, o.wi, o.color)
                     /\ rng = last.rng
            ELSE LET o == diffuseBranch(seg.color, last.normal, m, last.rng)
                 IN  /\ pathSegment = finalize(seg, last.intersect, o.wi, o.color)
                     /\ rng = o.rng

\* a material with both flags set was scattered as refractive, to a direction
\* that differs from the mirror direction
C5_Witness ==
    /\ last.called
    /\ last.m.emittance <= 0
    /\ last.m.hasRefractive
    /\ last.m.hasReflective
    /\ IsUnit(pathSegment.ray.direction)
    /\ ~VNear(pathSegment.ray.direction, Reflect(LastWo, last.normal))

\* C6: for a mirror material the throughput is multiplied componentwise by
\* the specular color and by nothing else, and the outgoing direction r is
\* the reflection of the normalized incoming direction wo about the normal n:
\* r - wo is parallel to n and dot(r, n) = -dot(wo, n)
C6_MirrorReflects ==
    (LastMirror /\ VFinite(LastWo)) =>
        LET r == pathSegment.ray.direction
            n == last.normal
        IN  /\ pathSegment.color = VMul(last.seg.color, last.m.specular.color)
            /\ VFinite(r)
            /\ Near(Dot(r, n), FNeg(Dot(LastWo, n)))
            /\ VNear(Cross(VSub(r, LastWo), n), Vec(0, 0, 0))
            /\ IsUnit(r)

\* a mirror bounce at oblique incidence with a tinted specular color on a
\* throughput that an earlier bounce has already changed
C6_Witness ==
    /\ LastMirror
    /\ VFinite(LastWo)
    /\ ~Near(Dot(LastWo, last.normal), 0)
    /\ ~Near(Dot(LastWo, last.normal), -One)
    /\ last.seg.color # White
    /\ pathSegment.color # last.seg.color

\* C9: for a diffuse material the throughput is unchanged, the direction is
\* the hemisphere sample around the given normal, and exactly two draws are
\* taken from the engine
C9_DiffuseFrame ==
    LastDiffuse =>
        /\ pathSegment.color = last.seg.color
        /\ Len(rng) = Len(last.rng) - 2
        /\ rng = SubSeq(last.rng, 3, Len(last.rng))
        /\ pathSegment.ray.direction =
              Normalize(calculateRandomDirectionInHemisphere(last.normal, last.rng).value)
        /\ IsUnit(pathSegment.ray.direction)
        /\ Dot(pathSegment.ray.direction, last.normal) >= -Tolerance

\* a diffuse bounce off a material whose diffuse color is not white
C9_Witness ==
    /\ LastDiffuse
    /\ last.m.color # White
    /\ last.seg.color # Vec(0, 0, 0)
    /\ Len(rng) = 1

\* C10: every throughput component is non-negative
C10_ThroughputNonNegative ==
    /\ NonNegative(pathSegment.color.x)
    /\ NonNegative(pathSegment.color.y)
    /\ NonNegative(pathSegment.color.z)

\* C8: dielectric returns a value in [0, 1], and exactly 1 whenever
\* sinThetaT >= 1
C8_FresnelInUnitInterval ==
    fresnel.done =>
        LET c == Clamp(fresnel.cosThetaI, -One, One)
            sinThetaT == FMul(FDiv(fresnel.etaI, fresnel.etaT),
                              FSqrt(FMax(0, FSub(One, FMul(c, c)))))
        IN  /\ FGeq(fresnel.f, 0)
            /\ FGeq(One, fresnel.f)
            /\ (FGeq(sinThetaT, One) => fresnel.f = One)

====
